---- MODULE Spec2Model ----
(***************************************************************************)
(* Model of the Amazon product monitor backend (spread-spain-backend-v2):  *)
(*   scraper.py   scrape_product, parse_page, extract_asin                 *)
(*   app.py       request handlers, scheduled_scrape_all, _upsert_product  *)
(*   database.py  the two tables and the connection context manager        *)
(*                                                                         *)
(* Three specifications share the module:                                  *)
(*   SpecScrape  one call of scrape_product, attempt by attempt            *)
(*   Spec        the server: concurrent handlers and batch threads over    *)
(*               the scrape lock and the SQLite store                      *)
(*   SpecSeq     _upsert_product called repeatedly by a single caller      *)
(***************************************************************************)
EXTENDS Integers, Sequences, FiniteSets, TLC

VARIABLES
    \* ---- scrape_product (scraper.py) ----
    s_url,        \* argument url
    retries,      \* argument retries
    attempt,      \* loop variable of "for attempt in range(retries + 1)"
    spc,          \* position inside the call
    browser,      \* TRUE while a browser session of this call is open
    sessions,     \* number of browser sessions launched by this call
    content,      \* page.content() of the current attempt (NoPage before it)
    navs,         \* page.goto calls so far: <<[attempt, target]>>
    sleeps,       \* back-off sleeps so far: <<[attempt, secs]>>
    outcomes,     \* how each finished attempt ended
    ret,          \* what the call returned (Running until it returns)
    \* ---- the server (app.py, database.py) ----
    products,     \* committed rows of table products
    history,      \* committed rows of table history
    dbWriter,     \* thread whose connection holds SQLite's write lock, or Free
    wProducts,    \* table products as seen by the open write transaction
    wHistory,     \* table history as seen by the open write transaction
    scrape_lock,  \* holder of threading.Lock scrape_lock, or Free
    waiting,      \* threads blocked in scrape_lock.acquire(), in arrival order
    completed,    \* threads whose scrape_product call has returned a record that
                  \* is not persisted yet, in the order the calls returned
    clock,        \* source of datetime.utcnow()
    pc,           \* position of each thread
    op,           \* what each thread is running
    url,          \* the url each thread is working on
    batch,        \* urls / pending_urls of a batch thread
    idx,          \* position of a batch thread in its list
    data,         \* result of the thread's last scrape_product call
    now,          \* "now" of the thread's _upsert_product call
    existing,     \* "existing" of the thread's _upsert_product call
    eff,          \* what the thread's last _upsert_product call did
    resp,         \* HTTP status of the thread's finished request
    blog,         \* per batch thread: how each url of the list was handled
    nops,         \* number of operations started so far
    \* ---- sequential caller of _upsert_product ----
    calls,        \* per url: number of _upsert_product calls made
    base,         \* the store the caller started from
    lastData      \* per url: data of the latest call

scrapeVars == <<s_url, retries, attempt, spc, browser, sessions, content,
                navs, sleeps, outcomes, ret>>
storeVars  == <<products, history, dbWriter, wProducts, wHistory, clock>>
threadVars == <<scrape_lock, waiting, completed, pc, op, url, batch, idx, data, now, existing,
                eff, resp, blog, nops>>
seqVars    == <<calls, base, lastData>>
vars       == <<scrapeVars, storeVars, threadVars, seqVars>>

\* Python's None where the other values are strings
Null == "NULL"

\* ------------------------------------------------------------------ bounds
MaxRetries == 2
MaxOps     == 2
MaxCalls   == 3

\* ------------------------------------------------------------------ urls
U1 == "https://www.amazon.in/dp/b0towel001"
U2 == "https://www.amazon.in/dp/B0SHEET002"
BadUrl == "https://example.com/item/1"
Urls == {U1, U2}

\* extract_asin: the 10 characters after "/dp/", upper-cased; None if absent
extract_asin(u) ==
    CASE u = U1 -> "B0TOWEL001"
      [] u = U2 -> "B0SHEET002"
      [] OTHER  -> Null

\* the url test of add_product and bulk_add: non-empty and "amazon.in/dp/" in url
ValidUrl(u) == u \in {U1, U2}

\* ------------------------------------------------------------------ pages
Digits == {"0", "1", "2", "3", "4", "5", "6", "7", "8", "9"}

DigitVal(c) ==
    CASE c = "0" -> 0 [] c = "1" -> 1 [] c = "2" -> 2 [] c = "3" -> 3
      [] c = "4" -> 4 [] c = "5" -> 5 [] c = "6" -> 6 [] c = "7" -> 7
      [] c = "8" -> 8 [] c = "9" -> 9

IsDigit(c) == c \in Digits

\* re.sub(r"[^\d]", "", s)
DigitsOnly(s) == SelectSeq(s, IsDigit)

RECURSIVE ToInt(_)
\* int(raw) for a non-empty string of digits
ToInt(s) == IF s = <<>> THEN 0
            ELSE 10 * ToInt(SubSeq(s, 1, Len(s) - 1)) + DigitVal(s[Len(s)])

DigitChar(n) ==
    CASE n = 0 -> "0" [] n = 1 -> "1" [] n = 2 -> "2" [] n = 3 -> "3"
      [] n = 4 -> "4" [] n = 5 -> "5" [] n = 6 -> "6" [] n = 7 -> "7"
      [] n = 8 -> "8" [] n = 9 -> "9"

RECURSIVE StrOfInt(_)
\* str(n) for an integer n >= 0
StrOfInt(n) == IF n < 10 THEN <<DigitChar(n)>>
               ELSE StrOfInt(n \div 10) \o <<DigitChar(n % 10)>>

\* A text field that is None (texts are sequences of characters; no text the
\* code stores in such a field is empty)
NoneStr == <<>>

\* What first() finds for the price selectors: the text of the first selector
\* with a non-empty text, NoneStr when there is none
PriceTexts == {NoneStr, <<"8", "4", "9">>, <<"1", ",", "2", "9", "9">>, <<"0">>, <<"-">>}

\* Texts of the three title selectors, in the order first() tries them
TitleTexts == {Null, "", "Cotton Bath Towel"}
TitleEls   == {<<a, b, c>> : a \in {Null, "Cotton Bath Towel"}, b \in TitleTexts,
                             c \in {Null, "Cotton Bath Towel"}}

\* What the block detector looks for in the markup
Markers == {"none", "Type the characters", "captcha", "CAPTCHA"}

\* An element that select_one does not find, and one it finds with text t
NoEl == <<>>
El(t) == <<t>>
Found(el) == el # NoEl
TextOf(el) == el[1]

\* Texts of the availability element ("#availability span, #outOfStock,
\* #almostGoneMessage"), as sequences of characters
TxtCurrentlyUnavailable == <<"C", "u", "r", "r", "e", "n", "t", "l", "y", " ", "u", "n", "a", "v", "a", "i", "l", "a", "b", "l", "e">>
TxtInStockDot == <<"I", "n", " ", "S", "t", "o", "c", "k", ".">>
TxtInStockPadded == <<" ", " ", "I", "n", " ", "S", "t", "o", "c", "k", ".", " ">>
TxtOutOfStock == <<"O", "u", "t", " ", "o", "f", " ", "S", "t", "o", "c", "k">>
TxtTempOut == <<"T", "e", "m", "p", "o", "r", "a", "r", "i", "l", "y", " ", "o", "u", "t", " ", "o", "f", " ", "s", "t", "o", "c", "k", ".">>
TxtOnlyLeft == <<"O", "n", "l", "y", " ", "2", " ", "l", "e", "f", "t", " ", "i", "n", " ", "s", "t", "o", "c", "k", ".">>
TxtShipsSoon == <<"S", "h", "i", "p", "s", " ", "s", "o", "o", "n">>
AvailEls == {NoEl, El(<<>>)} \cup
            {El(t) : t \in {TxtCurrentlyUnavailable, TxtInStockDot, TxtInStockPadded,
                            TxtOutOfStock, TxtTempOut, TxtOnlyLeft, TxtShipsSoon}}

\* Texts of the review-count element ("#acrCustomerReviewText,
\* #acrCustomerReviewLink span")
TxtRatings == <<"1", ",", "2", "3", "4", " ", "r", "a", "t", "i", "n", "g", "s">>
TxtNoRatings == <<"r", "a", "t", "i", "n", "g", "s">>
TxtZeroRatings == <<"0", " ", "r", "a", "t", "i", "n", "g", "s">>
TxtLeadingZero == <<"(", "0", "7", ")">>
ReviewEls == {NoEl, El(<<>>)} \cup
             {El(t) : t \in {TxtRatings, TxtNoRatings, TxtZeroRatings, TxtLeadingZero}}

\* The pages parse_page is given: every layout of the elements it reads
AllPages == [marker : Markers, titles : TitleEls, price_whole : PriceTexts,
             avail : AvailEls, reviews : ReviewEls]

\* The pages a scrape_product call meets in specification SpecScrape: every
\* marker, title layout and price, without the availability and review-count
\* elements
Pages == [marker : Markers, titles : TitleEls, price_whole : PriceTexts,
          avail : {NoEl}, reviews : {NoEl}]

\* str.lower() on the marker text
Lower(m) == IF m = "CAPTCHA" THEN "captcha" ELSE m

\* scraper.py: "Type the characters" in content or "captcha" in content.lower()
IsBlocked(html) ==
    \/ html.marker = "Type the characters"
    \/ Lower(html.marker) = "captcha"

\* a Python str-or-None value is truthy: not None and not ""
Truthy(v) == v # Null /\ v # ""

RECURSIVE first(_)
\* parse_page.first: the first selector whose text is truthy, else None
first(texts) ==
    IF texts = <<>> THEN Null
    ELSE IF Truthy(Head(texts)) THEN Head(texts) ELSE first(Tail(texts))

\* parse_page: price = int(digits of price_whole) if there are digits, and
\* the dict's "price": str(price) if price else None
PriceOf(html) ==
    LET raw == DigitsOnly(html.price_whole)
    IN  IF html.price_whole = NoneStr \/ raw = <<>> THEN NoneStr
        ELSE IF ToInt(raw) = 0 THEN NoneStr
        ELSE StrOfInt(ToInt(raw))

\* ---- stock
UpperLetters == <<"A", "B", "C", "D", "E", "F", "G", "H", "I", "J", "K", "L", "M",
                  "N", "O", "P", "Q", "R", "S", "T", "U", "V", "W", "X", "Y", "Z">>
LowerLetters == <<"a", "b", "c", "d", "e", "f", "g", "h", "i", "j", "k", "l", "m",
                  "n", "o", "p", "q", "r", "s", "t", "u", "v", "w", "x", "y", "z">>

\* str.lower() on a sequence of characters
LowerCh(c) == IF \E i \in 1..26 : UpperLetters[i] = c
              THEN LowerLetters[CHOOSE i \in 1..26 : UpperLetters[i] = c]
              ELSE c
lower(s) == [i \in 1..Len(s) |-> LowerCh(s[i])]

RECURSIVE LStrip(_)
LStrip(s) == IF s # <<>> /\ Head(s) = " " THEN LStrip(Tail(s)) ELSE s
RECURSIVE RStrip(_)
RStrip(s) == IF s # <<>> /\ s[Len(s)] = " " THEN RStrip(SubSeq(s, 1, Len(s) - 1)) ELSE s
\* get_text(strip=True) on an element with one text node
Strip(s) == RStrip(LStrip(s))

\* Python's "needle in hay" on strings
Contains(needle, hay) ==
    \E i \in 1..(Len(hay) - Len(needle) + 1) :
        SubSeq(hay, i, i + Len(needle) - 1) = needle

StrInStock       == <<"i", "n", " ", "s", "t", "o", "c", "k">>
StrAvailable     == <<"a", "v", "a", "i", "l", "a", "b", "l", "e">>
StrOutOfStock    == <<"o", "u", "t", " ", "o", "f", " ", "s", "t", "o", "c", "k">>
StrUnavailable   == <<"u", "n", "a", "v", "a", "i", "l", "a", "b", "l", "e">>
StrCurrentlyUnav == <<"c", "u", "r", "r", "e", "n", "t", "l", "y", " ">> \o StrUnavailable

\* The values of the dict's "stock"
StockUnknown    == <<"U", "n", "k", "n", "o", "w", "n">>
StockInStock    == <<"I", "n", " ", "s", "t", "o", "c", "k">>
StockOutOfStock == <<"O", "u", "t", " ", "o", "f", " ", "S", "t", "o", "c", "k">>

\* parse_page, "Stock / availability": the if / elif / else on the lower-cased
\* text, in the code's order
StockOf(html) ==
    IF ~Found(html.avail) THEN StockUnknown
    ELSE LET t == lower(Strip(TextOf(html.avail)))
         IN  IF Contains(StrInStock, t) \/ Contains(StrAvailable, t)
             THEN StockInStock
             ELSE IF Contains(StrOutOfStock, t) \/ Contains(StrUnavailable, t)
                     \/ Contains(StrCurrentlyUnav, t)
             THEN StockOutOfStock
             ELSE Strip(TextOf(html.avail))

\* ---- reviews
\* parse_page, "Reviews count": reviews = None without the element, else
\* int(raw) if raw else 0; the dict's "reviews" is str(reviews) if reviews is
\* not None else "0"
ReviewsOf(html) ==
    IF ~Found(html.reviews) THEN <<"0">>
    ELSE LET raw == DigitsOnly(TextOf(html.reviews))
         IN  IF raw = <<>> THEN StrOfInt(0) ELSE StrOfInt(ToInt(raw))

\* parse_page: the returned dict; of its ten fields the model follows asin,
\* title, price, reviews and stock (the other five are copied to the store the
\* same way as price)
parse_page(html, u) ==
    [asin    |-> extract_asin(u),
     title   |-> first(html.titles),
     price   |-> PriceOf(html),
     reviews |-> ReviewsOf(html),
     stock   |-> StockOf(html)]

\* ------------------------------------------------------------------ scrape_product
\* Values of a "dict | None" variable: None, or a dict
None     == [none |-> TRUE]
Dict(d)  == [none |-> FALSE, dict |-> d]
\* ret while the call runs
Running  == [running |-> TRUE]
NoPage   == [nopage |-> TRUE]

\* (mutant) the title test left out
HasTitleAlways(d) == TRUE

\* "if data.get('title')": the success test of an attempt
HasTitle(d) == Truthy(d.title)

\* (mutant) a blocked page ends the call at once
BlockedNoRetry(a, r) ==
    [spc |-> "returned", attempt |-> a, sleep |-> <<>>, ret |-> [none |-> TRUE]]

\* (mutant) the blocked branch without its "continue": both sleeps are taken
BlockedBothSleeps(a, r) ==
    IF a < r THEN [spc |-> "launch", attempt |-> a + 1, sleep |-> <<5, 3 + a * 2>>,
                   ret |-> [running |-> TRUE]]
    ELSE [spc |-> "returned", attempt |-> a, sleep |-> <<>>, ret |-> [none |-> TRUE]]

\* Where the call goes once it has seen a blocked page in attempt a:
\* browser.close(); if attempt < retries: time.sleep(5); continue; return None
BlockedNext(a, r) ==
    IF a < r THEN [spc |-> "launch", attempt |-> a + 1, sleep |-> <<5>>, ret |-> Running]
    ELSE [spc |-> "returned", attempt |-> a, sleep |-> <<>>, ret |-> None]

\* (mutant) the loop runs once more than range(retries + 1)
BackoffOneMore(a, r) ==
    IF a <= r THEN [spc |-> "launch", attempt |-> a + 1, sleep |-> <<3 + a * 2>>,
                    ret |-> [running |-> TRUE]]
    ELSE [spc |-> "returned", attempt |-> a, sleep |-> <<>>, ret |-> [none |-> TRUE]]

\* The end of the loop body after a failed attempt a (an exception caught, or
\* no title): if attempt < retries: time.sleep(3 + attempt * 2); the next
\* iteration, or "return None" after the loop
BackoffNext(a, r) ==
    IF a < r THEN [spc |-> "launch", attempt |-> a + 1, sleep |-> <<3 + a * 2>>, ret |-> Running]
    ELSE [spc |-> "returned", attempt |-> a, sleep |-> <<>>, ret |-> None]

\* What an exception raised inside "with sync_playwright()" leaves behind: the
\* context manager's exit stops the driver and with it the browser, and the
\* except clauses log it; the loop body then continues after the try
\* (mutant) only "except PWTimeout:" is there
CatchesTimeoutOnly(kind) == kind = "timeout"

\* (mutant) the browser started without the context manager: an exception
\* leaves it running
CaughtKeepsBrowser(kind) ==
    /\ UNCHANGED browser
    /\ content' = [nopage |-> TRUE]
    /\ outcomes' = Append(outcomes, kind)
    /\ spc' = "backoff"
    /\ UNCHANGED <<s_url, retries, attempt, sleeps, ret>>

\* "except PWTimeout:" and "except Exception as e:" between them catch kind
Catches(kind) == kind \in {"timeout", "error"}

Caught(kind) ==
    /\ browser' = FALSE
    /\ content' = NoPage
    /\ outcomes' = Append(outcomes, kind)
    /\ IF Catches(kind)
       THEN spc' = "backoff" /\ UNCHANGED ret
       ELSE spc' = "raised" /\ ret' = [raised |-> kind]
    /\ UNCHANGED <<s_url, retries, attempt, sleeps>>

Faults == {"timeout", "error"}

\* (mutant) the home page is visited in every attempt
WarmUpAlways(a) == TRUE

\* "if attempt == 0:" the home page is visited before the target url
NeedsWarmUp(a) == a = 0

\* p.chromium.launch ... ctx.new_page(): a new browser session, or an exception
\* raised by the launch (no session) or by the calls after it (the session is
\* torn down with the context manager)
Launch ==
    /\ spc = "launch"
    /\ \/ /\ browser' = TRUE
          /\ sessions' = sessions + 1
          /\ spc' = IF NeedsWarmUp(attempt) THEN "warmup" ELSE "goto"
          /\ UNCHANGED <<s_url, retries, attempt, content, navs, sleeps, outcomes, ret>>
       \/ /\ Caught("error")
          /\ sessions' \in {sessions, sessions + 1}
          /\ UNCHANGED navs
    /\ UNCHANGED <<storeVars, threadVars, seqVars>>

\* if attempt == 0: page.goto("https://www.amazon.in"); sleep
WarmUp ==
    /\ spc = "warmup"
    /\ navs' = Append(navs, [attempt |-> attempt, target |-> "home"])
    /\ UNCHANGED sessions
    /\ \/ /\ spc' = "goto"
          /\ UNCHANGED <<s_url, retries, attempt, browser, content, sleeps, outcomes, ret>>
       \/ \E f \in Faults : Caught(f)
    /\ UNCHANGED <<storeVars, threadVars, seqVars>>

\* page.goto(url); sleep; content = page.content()
Goto ==
    /\ spc = "goto"
    /\ navs' = Append(navs, [attempt |-> attempt, target |-> "url"])
    /\ UNCHANGED sessions
    /\ \/ \E html \in Pages :
            /\ content' = html
            /\ spc' = "inspect"
            /\ UNCHANGED <<s_url, retries, attempt, browser, sleeps, outcomes, ret>>
       \/ \E f \in Faults : Caught(f)
    /\ UNCHANGED <<storeVars, threadVars, seqVars>>

\* the CAPTCHA check, parse_page, browser.close() and the title test
Inspect ==
    /\ spc = "inspect"
    /\ browser' = FALSE
    /\ content' = NoPage
    /\ UNCHANGED <<s_url, retries, sessions, navs>>
    /\ IF IsBlocked(content)
       THEN LET n == BlockedNext(attempt, retries)
            IN  /\ outcomes' = Append(outcomes, "blocked")
                /\ spc' = n.spc
                /\ attempt' = n.attempt
                /\ sleeps' = sleeps \o [i \in 1..Len(n.sleep) |->
                                          [attempt |-> attempt, secs |-> n.sleep[i]]]
                /\ ret' = n.ret
       ELSE LET d == parse_page(content, s_url)
            IN  IF HasTitle(d)
                THEN /\ outcomes' = Append(outcomes, "title")
                     /\ spc' = "returned"
                     /\ ret' = Dict(d)
                     /\ UNCHANGED <<attempt, sleeps>>
                ELSE /\ outcomes' = Append(outcomes, "notitle")
                     /\ spc' = "backoff"
                     /\ UNCHANGED <<attempt, sleeps, ret>>
    /\ UNCHANGED <<storeVars, threadVars, seqVars>>

\* the two lines after the try statement, and the loop's next iteration or end
Backoff ==
    /\ spc = "backoff"
    /\ LET n == BackoffNext(attempt, retries)
       IN  /\ spc' = n.spc
           /\ attempt' = n.attempt
           /\ sleeps' = sleeps \o [i \in 1..Len(n.sleep) |->
                                     [attempt |-> attempt, secs |-> n.sleep[i]]]
           /\ ret' = n.ret
    /\ UNCHANGED <<s_url, retries, browser, sessions, content, navs, outcomes>>
    /\ UNCHANGED <<storeVars, threadVars, seqVars>>

ScrapeInit ==
    /\ s_url \in Urls
    /\ retries \in 0..MaxRetries
    /\ attempt = 0
    /\ spc = "launch"
    /\ browser = FALSE
    /\ sessions = 0
    /\ content = NoPage
    /\ navs = <<>>
    /\ sleeps = <<>>
    /\ outcomes = <<>>
    /\ ret = Running

ScrapeIdle ==
    /\ s_url = U1
    /\ retries = 0
    /\ attempt = 0
    /\ spc = "returned"
    /\ browser = FALSE
    /\ sessions = 0
    /\ content = NoPage
    /\ navs = <<>>
    /\ sleeps = <<>>
    /\ outcomes = <<>>
    /\ ret = None

\* Every value scrape_product(u) can return: None, or the dict parse_page makes
\* of a page that is not blocked and has a title
ScrapeReturnsOn(pages, u) ==
    {None} \cup {Dict(parse_page(html, u)) :
                   html \in {h \in pages : ~IsBlocked(h) /\ HasTitle(parse_page(h, u))}}

ScrapeReturns(u) == ScrapeReturnsOn(Pages, u)

\* The pages the server's scrapes meet in specification Spec: every marker and
\* title layout, one price
ServerPages == {h \in Pages : h.price_whole = <<"8", "4", "9">>}
\* What scrape_product can return for each url the server scrapes
ServerReturnsByUrl == [u \in Urls |-> ScrapeReturnsOn(ServerPages, u)]
ServerReturns(u) == ServerReturnsByUrl[u]

\* ------------------------------------------------------------------ the store
\* SELECT id FROM products WHERE url=?
SelectByUrl(P, u) == {r \in P : r.url = u}

\* SELECT url FROM products
SelectUrls(P) == {r.url : r \in P}

\* (mutant) the url column without UNIQUE
NoUnique(P, u) == TRUE

\* database.py: "url TEXT UNIQUE NOT NULL": an INSERT of url u is accepted
UniqueOk(P, u) == \A r \in P : r.url # u

\* (mutant) the UPDATE without its SET list of scraped fields
UpdateStamp(P, u, d, ts) ==
    {IF r.url = u THEN [r EXCEPT !.last_scraped = ts] ELSE r : r \in P}

\* (mutant) the row written anew, as INSERT OR REPLACE would
UpdateReplaces(P, u, d, ts) ==
    {IF r.url = u
     THEN [url |-> u, asin |-> d.asin, title |-> d.title, price |-> d.price,
           added_at |-> ts, last_scraped |-> ts]
     ELSE r : r \in P}

\* UPDATE products SET title=?, ..., last_scraped=? WHERE url=?
UpdateProducts(P, u, d, ts) ==
    {IF r.url = u
     THEN [r EXCEPT !.title = d.title, !.price = d.price, !.last_scraped = ts]
     ELSE r : r \in P}

\* INSERT INTO products (url, asin, title, ..., added_at, last_scraped)
InsertProducts(P, u, d, ts) ==
    P \cup {[url |-> u, asin |-> d.asin, title |-> d.title, price |-> d.price,
             added_at |-> ts, last_scraped |-> ts]}

\* (mutant) the snapshot replaces the earlier snapshots of its url
InsertHistoryLatest(H, u, d, ts) ==
    {h \in H : h.url # u} \cup {[url |-> u, price |-> d.price, scraped_at |-> ts]}

\* INSERT INTO history (url, price, rating, rank, reviews, scraped_at)
InsertHistory(H, u, d, ts) ==
    H \cup {[url |-> u, price |-> d.price, scraped_at |-> ts]}

\* (mutant) the DELETE without its WHERE clause
DeleteNoWhere(T, u) == {}

\* DELETE FROM products WHERE url=?  /  DELETE FROM history WHERE url=?
DeleteByUrl(T, u) == {r \in T : r.url # u}

\* ------------------------------------------------------------------ threads
\* Two threads of the server's pool run the operations, one operation each at
\* a time; MaxOps bounds how many operations are started in all
Threads == {1, 2}
\* The holder of a lock nobody holds
Free == 0
InputUrls == Urls \cup {BadUrl}

NoEff == [rows |-> 0, hist |-> 0, committed |-> FALSE]

\* The handlers that take scrape_lock around scrape_product
LockedOps == {"add", "refresh_one"}
\* The loops that call scrape_product for each url of a list
BatchOps  == {"sched", "bulk"}

\* All orders in which SELECT url FROM products can return the urls
Orders(S) == {q \in UNION {[1..n -> S] : n \in {Cardinality(S)}} :
                \A i, j \in 1..Len(q) : i # j => q[i] # q[j]}

\* bulk_add: the urls that pass the url test and are not in "existing"
NewUrls(urls, ex) ==
    LET keep(u) == ValidUrl(u) /\ u \notin ex
    IN  SelectSeq(urls, keep)

\* The "urls" bodies of POST /api/products/bulk: lists of up to two urls
BulkInputs == {<<>>} \cup {<<a>> : a \in InputUrls}
                     \cup {<<a, b>> : a \in InputUrls, b \in InputUrls}

\* A thread back in the pool
Idle(t) ==
    /\ pc' = [pc EXCEPT ![t] = "idle"]
    /\ op' = [op EXCEPT ![t] = "none"]
    /\ url' = [url EXCEPT ![t] = Null]
    /\ batch' = [batch EXCEPT ![t] = <<>>]
    /\ idx' = [idx EXCEPT ![t] = 0]
    /\ data' = [data EXCEPT ![t] = None]
    /\ now' = [now EXCEPT ![t] = 0]
    /\ existing' = [existing EXCEPT ![t] = FALSE]
    /\ eff' = [eff EXCEPT ![t] = NoEff]
    /\ resp' = [resp EXCEPT ![t] = 0]
    /\ blog' = [blog EXCEPT ![t] = <<>>]

\* A handler returns its response
Respond(t, code) ==
    /\ pc' = [pc EXCEPT ![t] = "done"]
    /\ resp' = [resp EXCEPT ![t] = code]

CanStart(t) == pc[t] = "idle" /\ nops < MaxOps

\* ---- add_product -------------------------------------------------------
\* POST /api/products: the url test, the "already monitored" test, then the
\* handler waits for scrape_lock
AddProduct(t, u) ==
    /\ CanStart(t)
    /\ nops' = nops + 1
    /\ op' = [op EXCEPT ![t] = "add"]
    /\ url' = [url EXCEPT ![t] = u]
    /\ IF ~ValidUrl(u) THEN Respond(t, 400)
       ELSE IF SelectByUrl(products, u) # {} THEN Respond(t, 409)
       ELSE pc' = [pc EXCEPT ![t] = "lock"] /\ UNCHANGED resp
    /\ UNCHANGED <<scrape_lock, waiting, completed, batch, idx, data, now, existing, eff, blog>>
    /\ UNCHANGED storeVars
    /\ UNCHANGED <<scrapeVars, seqVars>>

\* ---- refresh_one -------------------------------------------------------
\* POST /api/products/refresh-one: no test of the url; waits for scrape_lock
RefreshOne(t, u) ==
    /\ CanStart(t)
    /\ nops' = nops + 1
    /\ op' = [op EXCEPT ![t] = "refresh_one"]
    /\ url' = [url EXCEPT ![t] = u]
    /\ pc' = [pc EXCEPT ![t] = "lock"]
    /\ UNCHANGED <<scrape_lock, waiting, completed, batch, idx, data, now, existing, eff, resp, blog>>
    /\ UNCHANGED storeVars
    /\ UNCHANGED <<scrapeVars, seqVars>>

\* "with scrape_lock:" while another thread holds the lock: the thread blocks
\* in scrape_lock.acquire()
WaitLock(t) ==
    /\ pc[t] = "lock"
    /\ scrape_lock # Free
    /\ waiting' = Append(waiting, t)
    /\ pc' = [pc EXCEPT ![t] = "wait"]
    /\ UNCHANGED <<scrape_lock, completed, op, url, batch, idx, data, now, existing, eff, resp, blog, nops>>
    /\ UNCHANGED storeVars
    /\ UNCHANGED <<scrapeVars, seqVars>>

\* The queue of blocked threads without thread t
Without(q, t) == SelectSeq(q, LAMBDA x : x # t)

\* "with scrape_lock:" entered; scrape_product starts. threading.Lock hands a
\* free lock to any thread that asks for it, blocked before or just arrived
AcquireLock(t) ==
    /\ pc[t] \in {"lock", "wait"}
    /\ scrape_lock = Free
    /\ scrape_lock' = t
    /\ waiting' = Without(waiting, t)
    /\ pc' = [pc EXCEPT ![t] = "scraping"]
    /\ UNCHANGED <<completed, op, url, batch, idx, data, now, existing, eff, resp, blog, nops>>
    /\ UNCHANGED storeVars
    /\ UNCHANGED <<scrapeVars, seqVars>>

\* (mutant) acquire() and release() by hand, the release after the early return
ExitOnRecord(holder, r) == IF r = None THEN holder ELSE Free

\* The holder of scrape_lock after "with scrape_lock:" is left by holder with
\* scrape_product's result r: the with statement releases on every exit
WithExit(holder, r) == Free

\* scrape_product returns to add_product or refresh_one; the with block ends;
\* "if not data: return 502"
LockedScrapeReturn(t) ==
    /\ pc[t] = "scraping"
    /\ op[t] \in LockedOps
    /\ UNCHANGED waiting
    /\ \E r \in ServerReturns(url[t]) :
         /\ scrape_lock' = WithExit(t, r)
         /\ data' = [data EXCEPT ![t] = r]
         /\ completed' = IF r = None THEN completed ELSE Append(completed, t)
         /\ IF r = None THEN Respond(t, 502)
            ELSE pc' = [pc EXCEPT ![t] = "u_select"] /\ UNCHANGED resp
    /\ UNCHANGED <<op, url, batch, idx, now, existing, eff, blog, nops>>
    /\ UNCHANGED storeVars
    /\ UNCHANGED <<scrapeVars, seqVars>>

\* ---- scheduled_scrape_all, refresh_all, bulk_add ------------------------
\* scheduled_scrape_all starts, run by the scheduler's job or by the thread
\* that POST /api/products/refresh starts: urls = SELECT url FROM products
ScheduledScrapeAll(t) ==
    /\ CanStart(t)
    /\ nops' = nops + 1
    /\ op' = [op EXCEPT ![t] = "sched"]
    /\ \E q \in Orders(SelectUrls(products)) : batch' = [batch EXCEPT ![t] = q]
    /\ pc' = [pc EXCEPT ![t] = "batch"]
    /\ UNCHANGED <<scrape_lock, waiting, completed, url, idx, data, now, existing, eff, resp, blog>>
    /\ UNCHANGED storeVars
    /\ UNCHANGED <<scrapeVars, seqVars>>

\* POST /api/products/bulk: new_urls is computed, a new thread runs _bulk_scrape
BulkAdd(t, urls) ==
    /\ CanStart(t)
    /\ nops' = nops + 1
    /\ op' = [op EXCEPT ![t] = "bulk"]
    /\ batch' = [batch EXCEPT ![t] = NewUrls(urls, SelectUrls(products))]
    /\ pc' = [pc EXCEPT ![t] = "batch"]
    /\ UNCHANGED <<scrape_lock, waiting, completed, url, idx, data, now, existing, eff, resp, blog>>
    /\ UNCHANGED storeVars
    /\ UNCHANGED <<scrapeVars, seqVars>>

\* "for url in urls:" the next url's scrape_product call starts, or the loop ends
BatchNext(t) ==
    /\ pc[t] = "batch"
    /\ IF idx[t] < Len(batch[t])
       THEN /\ url' = [url EXCEPT ![t] = batch[t][idx[t] + 1]]
            /\ pc' = [pc EXCEPT ![t] = "scraping"]
            /\ UNCHANGED resp
       ELSE /\ Respond(t, 0)
            /\ UNCHANGED url
    /\ UNCHANGED <<scrape_lock, waiting, completed, op, batch, idx, data, now, existing, eff, blog, nops>>
    /\ UNCHANGED storeVars
    /\ UNCHANGED <<scrapeVars, seqVars>>

\* The loop is done with url number i of its list
BatchStep(t, how) ==
    /\ blog' = [blog EXCEPT ![t] = Append(@, how)]
    /\ idx' = [idx EXCEPT ![t] = @ + 1]
    /\ pc' = [pc EXCEPT ![t] = "batch"]
    /\ data' = [data EXCEPT ![t] = None]
    /\ now' = [now EXCEPT ![t] = 0]
    /\ existing' = [existing EXCEPT ![t] = FALSE]
    /\ eff' = [eff EXCEPT ![t] = NoEff]
    /\ UNCHANGED resp

\* scrape_product returns inside the loop; "if data:" _upsert_product
BatchScrapeReturn(t) ==
    /\ pc[t] = "scraping"
    /\ op[t] \in BatchOps
    /\ \E r \in ServerReturns(url[t]) :
         IF r = None THEN BatchStep(t, "none") /\ UNCHANGED completed
         ELSE /\ data' = [data EXCEPT ![t] = r]
              /\ completed' = Append(completed, t)
              /\ pc' = [pc EXCEPT ![t] = "u_select"]
              /\ UNCHANGED <<resp, blog, idx, now, existing, eff>>
    /\ UNCHANGED <<scrape_lock, waiting, op, url, batch, nops>>
    /\ UNCHANGED storeVars
    /\ UNCHANGED <<scrapeVars, seqVars>>

\* ---- _upsert_product ---------------------------------------------------
\* (mutant) a connection in autocommit mode: each statement is visible at once
SeenAtOnce(C, W) == W

\* What other connections see of a table while a transaction that has changed
\* it to W is open: the committed table C (sqlite3's implicit transaction
\* opened by the first INSERT/UPDATE/DELETE ends at db.commit())
SeenBeforeCommit(C, W) == C

\* (mutant) no try/except in the loop: the fault ends the thread
BatchFaultEnds(t) ==
    /\ blog' = [blog EXCEPT ![t] = Append(@, "fault")]
    /\ pc' = [pc EXCEPT ![t] = "done"]
    /\ data' = [data EXCEPT ![t] = None]
    /\ now' = [now EXCEPT ![t] = 0]
    /\ existing' = [existing EXCEPT ![t] = FALSE]
    /\ eff' = [eff EXCEPT ![t] = NoEff]
    /\ UNCHANGED <<idx, resp>>

\* The except clause of a batch loop: the fault is logged, the loop goes on
BatchFault(t) == BatchStep(t, "fault")

\* An exception leaves _upsert_product: "with get_db()" closes the connection,
\* which rolls the open transaction back; a batch loop catches it, a request
\* handler ends with status 500
Raise(t) ==
    /\ completed' = Without(completed, t)
    /\ dbWriter' = Free
    /\ wProducts' = {}
    /\ wHistory' = {}
    /\ UNCHANGED <<products, history, clock>>
    /\ IF op[t] \in BatchOps THEN BatchFault(t)
       ELSE Respond(t, 500) /\ UNCHANGED <<blog, idx, data, now, existing, eff>>

\* now = utcnow(); existing = SELECT id FROM products WHERE url=?
UpsertSelect(t) ==
    /\ pc[t] = "u_select"
    /\ clock' = clock + 1
    /\ now' = [now EXCEPT ![t] = clock + 1]
    /\ existing' = [existing EXCEPT ![t] = SelectByUrl(products, url[t]) # {}]
    /\ eff' = [eff EXCEPT ![t] = NoEff]
    /\ pc' = [pc EXCEPT ![t] = "u_write"]
    /\ UNCHANGED <<scrape_lock, waiting, completed, op, url, batch, idx, data, resp, blog, nops>>
    /\ UNCHANGED <<products, history, dbWriter, wProducts, wHistory>>
    /\ UNCHANGED <<scrapeVars, seqVars>>

\* "if existing:" UPDATE, "else:" INSERT. The statement opens the write
\* transaction (it waits while another connection holds the write lock); an
\* INSERT of a url that has a row raises IntegrityError
UpsertWrite(t) ==
    /\ pc[t] = "u_write"
    /\ dbWriter = Free
    /\ LET d == data[t].dict
           u == url[t]
       IN  IF ~existing[t] /\ ~UniqueOk(products, u)
           THEN Raise(t)
           ELSE LET W == IF existing[t] THEN UpdateProducts(products, u, d, now[t])
                         ELSE InsertProducts(products, u, d, now[t])
                    n == IF existing[t] THEN Cardinality(SelectByUrl(products, u)) ELSE 1
                IN  /\ dbWriter' = t
                    /\ UNCHANGED completed
                    /\ wProducts' = W
                    /\ wHistory' = history
                    /\ products' = SeenBeforeCommit(products, W)
                    /\ eff' = [eff EXCEPT ![t].rows = n]
                    /\ pc' = [pc EXCEPT ![t] = "u_hist"]
                    /\ UNCHANGED <<history, clock, resp, blog, idx, data, now, existing>>
    /\ UNCHANGED <<scrape_lock, waiting, op, url, batch, nops>>
    /\ UNCHANGED <<scrapeVars, seqVars>>

\* INSERT INTO history
UpsertHistory(t) ==
    /\ pc[t] = "u_hist"
    /\ dbWriter = t
    /\ LET W == InsertHistory(wHistory, url[t], data[t].dict, now[t])
       IN  /\ wHistory' = W
           /\ history' = SeenBeforeCommit(history, W)
    /\ eff' = [eff EXCEPT ![t].hist = 1]
    /\ pc' = [pc EXCEPT ![t] = "u_commit"]
    /\ UNCHANGED <<scrape_lock, waiting, completed, op, url, batch, idx, data, now, existing, resp, blog, nops>>
    /\ UNCHANGED <<products, dbWriter, wProducts, clock>>
    /\ UNCHANGED <<scrapeVars, seqVars>>

\* db.commit(), and the return to the caller: the loop's next url, or the
\* handler's SELECT of the row
UpsertCommit(t) ==
    /\ pc[t] = "u_commit"
    /\ dbWriter = t
    /\ completed' = Without(completed, t)
    /\ products' = wProducts
    /\ history' = wHistory
    /\ dbWriter' = Free
    /\ wProducts' = {}
    /\ wHistory' = {}
    /\ IF op[t] \in BatchOps THEN BatchStep(t, "saved")
       ELSE /\ pc' = [pc EXCEPT ![t] = "read"]
            /\ eff' = [eff EXCEPT ![t].committed = TRUE]
            /\ UNCHANGED <<resp, blog, idx, data, now, existing>>
    /\ UNCHANGED <<scrape_lock, waiting, op, url, batch, nops>>
    /\ UNCHANGED clock
    /\ UNCHANGED <<scrapeVars, seqVars>>

\* add_product / refresh_one: SELECT * FROM products WHERE url=? and the
\* response; _row_to_dict(None) raises when the row is gone
ReadBack(t) ==
    /\ pc[t] = "read"
    /\ IF SelectByUrl(products, url[t]) = {} THEN Respond(t, 500)
       ELSE Respond(t, IF op[t] = "add" THEN 201 ELSE 200)
    /\ UNCHANGED <<scrape_lock, waiting, completed, op, url, batch, idx, data, now, existing, eff, blog, nops>>
    /\ UNCHANGED storeVars
    /\ UNCHANGED <<scrapeVars, seqVars>>

\* ---- delete_product ----------------------------------------------------
\* DELETE FROM products WHERE url=? (opens the write transaction)
DeleteProducts(t, u) ==
    /\ CanStart(t)
    /\ dbWriter = Free
    /\ nops' = nops + 1
    /\ op' = [op EXCEPT ![t] = "delete"]
    /\ url' = [url EXCEPT ![t] = u]
    /\ pc' = [pc EXCEPT ![t] = "d_history"]
    /\ dbWriter' = t
    /\ LET W == DeleteByUrl(products, u)
       IN  /\ wProducts' = W
           /\ products' = SeenBeforeCommit(products, W)
    /\ wHistory' = history
    /\ UNCHANGED <<scrape_lock, waiting, completed, batch, idx, data, now, existing, eff, resp, blog>>
    /\ UNCHANGED <<history, clock>>
    /\ UNCHANGED <<scrapeVars, seqVars>>

\* DELETE FROM history WHERE url=?
DeleteHistory(t) ==
    /\ pc[t] = "d_history"
    /\ dbWriter = t
    /\ LET W == DeleteByUrl(wHistory, url[t])
       IN  /\ wHistory' = W
           /\ history' = SeenBeforeCommit(history, W)
    /\ pc' = [pc EXCEPT ![t] = "d_commit"]
    /\ UNCHANGED <<scrape_lock, waiting, completed, op, url, batch, idx, data, now, existing, eff, resp, blog, nops>>
    /\ UNCHANGED <<products, dbWriter, wProducts, clock>>
    /\ UNCHANGED <<scrapeVars, seqVars>>

\* db.commit(); return {"ok": True}
DeleteCommit(t) ==
    /\ pc[t] = "d_commit"
    /\ dbWriter = t
    /\ products' = wProducts
    /\ history' = wHistory
    /\ dbWriter' = Free
    /\ wProducts' = {}
    /\ wHistory' = {}
    /\ Respond(t, 200)
    /\ UNCHANGED <<scrape_lock, waiting, completed, op, url, batch, idx, data, now, existing, eff, blog, nops>>
    /\ UNCHANGED clock
    /\ UNCHANGED <<scrapeVars, seqVars>>

\* The response is sent (or the background thread ends)
Finish(t) ==
    /\ pc[t] = "done"
    /\ Idle(t)
    /\ UNCHANGED <<scrape_lock, waiting, completed, nops>>
    /\ UNCHANGED storeVars
    /\ UNCHANGED <<scrapeVars, seqVars>>

\* ------------------------------------------------------------------ a single caller
\* _upsert_product run from its first line to db.commit() with no other
\* connection active: the store it leaves
Upsert(P, H, u, d, ts) ==
    LET ex == SelectByUrl(P, u) # {}
    IN  IF ex THEN [products |-> UpdateProducts(P, u, d, ts),
                    history  |-> InsertHistory(H, u, d, ts)]
        ELSE IF UniqueOk(P, u)
        THEN [products |-> InsertProducts(P, u, d, ts),
              history  |-> InsertHistory(H, u, d, ts)]
        ELSE [products |-> P, history |-> H]

\* The dicts scrape_product can hand to _upsert_product
Dicts(u) == {r.dict : r \in ScrapeReturns(u) \ {None}}

OldRow(u)  == [url |-> u, asin |-> extract_asin(u), title |-> "Cotton Bath Towel",
               price |-> <<"7", "9", "9">>, added_at |-> 0, last_scraped |-> 0]
OldHist(u) == [url |-> u, price |-> <<"7", "9", "9">>, scraped_at |-> 0]

\* Stores a caller can start from: per url no rows, a product row with its
\* snapshot, or a snapshot whose product row is gone
StartStores ==
    LET All == {[products |-> {OldRow(u) : u \in A}, history |-> {OldHist(u) : u \in B}] :
                    A \in SUBSET Urls, B \in SUBSET Urls}
    IN  {st \in All : \A r \in st.products : \E h \in st.history : h.url = r.url}

SeqUpsert(u, d) ==
    /\ calls[U1] + calls[U2] < MaxCalls
    /\ LET st == Upsert(products, history, u, d, clock + 1)
       IN  /\ products' = st.products
           /\ history' = st.history
    /\ clock' = clock + 1
    /\ calls' = [calls EXCEPT ![u] = @ + 1]
    /\ lastData' = [lastData EXCEPT ![u] = d]
    /\ UNCHANGED <<base, dbWriter, wProducts, wHistory>>
    /\ UNCHANGED threadVars
    /\ UNCHANGED scrapeVars

\* ------------------------------------------------------------------ specifications
ThreadsInit ==
    /\ scrape_lock = Free
    /\ waiting = <<>>
    /\ completed = <<>>
    /\ pc = [t \in Threads |-> "idle"]
    /\ op = [t \in Threads |-> "none"]
    /\ url = [t \in Threads |-> Null]
    /\ batch = [t \in Threads |-> <<>>]
    /\ idx = [t \in Threads |-> 0]
    /\ data = [t \in Threads |-> None]
    /\ now = [t \in Threads |-> 0]
    /\ existing = [t \in Threads |-> FALSE]
    /\ eff = [t \in Threads |-> NoEff]
    /\ resp = [t \in Threads |-> 0]
    /\ blog = [t \in Threads |-> <<>>]
    /\ nops = 0

\* init_db on a new file: both tables empty
EmptyStore ==
    /\ products = {}
    /\ history = {}
    /\ dbWriter = Free
    /\ wProducts = {}
    /\ wHistory = {}
    /\ clock = 0

\* The store when the server starts: empty (init_db on a new file), or that of
\* an earlier run in which U1 was added
StoreInit ==
    /\ \E A \in {{}, {U1}} :
         /\ products = {OldRow(u) : u \in A}
         /\ history = {OldHist(u) : u \in A}
    /\ dbWriter = Free
    /\ wProducts = {}
    /\ wHistory = {}
    /\ clock = 0

SeqIdle ==
    /\ calls = [u \in Urls |-> 0]
    /\ base = [products |-> {}, history |-> {}]
    /\ lastData = [u \in Urls |-> [asin |-> Null, title |-> Null, price |-> NoneStr]]

Init == ScrapeIdle /\ StoreInit /\ ThreadsInit /\ SeqIdle

Next ==
    \/ \E t \in Threads :
         \/ \E u \in InputUrls : AddProduct(t, u)
         \/ \E u \in Urls : RefreshOne(t, u)
         \/ WaitLock(t)
         \/ AcquireLock(t)
         \/ LockedScrapeReturn(t)
         \/ ScheduledScrapeAll(t)
         \/ \E urls \in BulkInputs : BulkAdd(t, urls)
         \/ BatchNext(t)
         \/ BatchScrapeReturn(t)
         \/ UpsertSelect(t)
         \/ UpsertWrite(t)
         \/ UpsertHistory(t)
         \/ UpsertCommit(t)
         \/ ReadBack(t)
         \/ \E u \in Urls : DeleteProducts(t, u)
         \/ DeleteHistory(t)
         \/ DeleteCommit(t)
         \/ Finish(t)

Spec == Init /\ [][Next]_vars

\* The steps of thread t at the scrape lock: taking the free lock, and the
\* return of scrape_product that ends the with block
GuardStep(t) ==
    \/ AcquireLock(t)
    \/ LockedScrapeReturn(t)

\* scrape_product returns (bounded attempts, bounded waits), and the
\* interpreter runs a thread that asks for a lock that stays free. Requests
\* arrive as they please and nothing is assumed about the other steps
FairSpec == Spec /\ \A t \in Threads : WF_vars(GuardStep(t))

\* ---- the server with a refresh_one in flight
\* Thread 1 is inside scrape_product for U1 under scrape_lock when the
\* observation starts; nops counts the operations started after that
GuardInit ==
    /\ scrape_lock = 1
    /\ waiting = <<>>
    /\ completed = <<>>
    /\ pc = [t \in Threads |-> IF t = 1 THEN "scraping" ELSE "idle"]
    /\ op = [t \in Threads |-> IF t = 1 THEN "refresh_one" ELSE "none"]
    /\ url = [t \in Threads |-> IF t = 1 THEN U1 ELSE Null]
    /\ batch = [t \in Threads |-> <<>>]
    /\ idx = [t \in Threads |-> 0]
    /\ data = [t \in Threads |-> None]
    /\ now = [t \in Threads |-> 0]
    /\ existing = [t \in Threads |-> FALSE]
    /\ eff = [t \in Threads |-> NoEff]
    /\ resp = [t \in Threads |-> 0]
    /\ blog = [t \in Threads |-> <<>>]
    /\ nops = 0

InitGuard == ScrapeIdle /\ StoreInit /\ GuardInit /\ SeqIdle

SpecGuard == InitGuard /\ [][Next]_vars

\* ---- one call of scrape_product
InitScrape == ScrapeInit /\ EmptyStore /\ ThreadsInit /\ SeqIdle

NextScrape ==
    \/ Launch
    \/ WarmUp
    \/ Goto
    \/ Inspect
    \/ Backoff

SpecScrape == InitScrape /\ [][NextScrape]_vars

\* Every step of the call is straight-line code with bounded waits (a 30 s
\* navigation timeout, finite sleeps), so an enabled step is eventually taken
FairSpecScrape == SpecScrape /\ WF_vars(NextScrape)

\* ---- parse_page applied to a page
\* The pages given to parse_page: every layout of the title, price,
\* availability and review-count elements (parse_page does not read the marker)
ParsePages == {h \in AllPages : h.marker = "none"}

InitParse ==
    /\ s_url \in Urls
    /\ content \in ParsePages
    /\ spc = "parse"
    /\ ret = Running
    /\ retries = 0
    /\ attempt = 0
    /\ browser = FALSE
    /\ sessions = 0
    /\ navs = <<>>
    /\ sleeps = <<>>
    /\ outcomes = <<>>
    /\ EmptyStore
    /\ ThreadsInit
    /\ SeqIdle

\* data = parse_page(content, url)
Parse ==
    /\ spc = "parse"
    /\ ret' = Dict(parse_page(content, s_url))
    /\ spc' = "parsed"
    /\ UNCHANGED <<s_url, retries, attempt, browser, sessions, content, navs,
                   sleeps, outcomes>>
    /\ UNCHANGED <<storeVars, threadVars, seqVars>>

NextParse == Parse

SpecParse == InitParse /\ [][NextParse]_vars

\* ---- _upsert_product called again and again by one caller
InitSeq ==
    /\ ScrapeIdle
    /\ ThreadsInit
    /\ \E st \in StartStores :
         /\ products = st.products
         /\ history = st.history
         /\ base = st
    /\ dbWriter = Free
    /\ wProducts = {}
    /\ wHistory = {}
    /\ clock = 0
    /\ calls = [u \in Urls |-> 0]
    /\ lastData = [u \in Urls |-> [asin |-> Null, title |-> Null, price |-> NoneStr]]

NextSeq == \E u \in Urls : \E d \in Dicts(u) : SeqUpsert(u, d)

SpecSeq == InitSeq /\ [][NextSeq]_vars

\* ------------------------------------------------------------------ properties
Range(q) == {q[i] : i \in 1..Len(q)}
Last(q)  == q[Len(q)]
IsDict(v) == "dict" \in DOMAIN v

\* Navigations of the call to the target url
TargetNavs == Cardinality({i \in 1..Len(navs) : navs[i].target = "url"})

\* Threads inside scrape_product
Scraping == {t \in Threads : pc[t] = "scraping"}

\* Positions of a thread inside _upsert_product
UpsertPcs == {"u_select", "u_write", "u_hist", "u_commit"}

\* C1: at most one execution of scrape_product is in progress at any time,
\* whichever handlers and batch threads are active.
C1_OneScrapeAtATime == Cardinality(Scraping) <= 1

\* C2: a record returned by scrape_product has a title that is neither None nor
\* empty, and it is the record of an attempt that ended with a title.
C2_ReturnedRecordHasTitle ==
    (spc = "returned" /\ ret # None) =>
        /\ IsDict(ret)
        /\ ret.dict.title # Null
        /\ ret.dict.title # ""
        /\ Last(outcomes) = "title"

\* C2 witness: a record is returned after two attempts that failed
C2_Witness ==
    /\ spc = "returned"
    /\ IsDict(ret)
    /\ Len(outcomes) = 3
    /\ outcomes[2] = "notitle"

\* C3: when every attempt met a blocked page, scrape_product returns None and
\* has navigated to the target url exactly retries + 1 times.
C3_AllBlockedReturnsNone ==
    (spc = "returned" /\ \A i \in 1..Len(outcomes) : outcomes[i] = "blocked") =>
        /\ ret = None
        /\ TargetNavs = retries + 1
        /\ Len(outcomes) = retries + 1

\* C3 witness: three blocked attempts with retries = 2
C3_Witness ==
    /\ spc = "returned"
    /\ retries = 2
    /\ outcomes = <<"blocked", "blocked", "blocked">>

AttemptsBounded ==
    /\ attempt <= retries
    /\ sessions <= retries + 1
    /\ TargetNavs <= retries + 1
    /\ Len(outcomes) <= retries + 1

TitledPage == spc = "inspect" /\ ~IsBlocked(content) /\ Truthy(first(content.titles))

\* C4: scrape_product makes at most retries + 1 attempts and terminates; an
\* attempt whose page is not blocked and has a title ends the call with that
\* attempt's record and no further navigation, whatever its other fields.
C4_BoundedAttemptsAndTermination ==
    /\ []AttemptsBounded
    /\ [][TitledPage =>
            /\ spc' = "returned"
            /\ ret' = Dict(parse_page(content, s_url))
            /\ navs' = navs
            /\ sessions' = sessions]_vars
    /\ [][spc = "returned" => UNCHANGED <<navs, sessions, ret>>]_vars
    /\ <>(spc = "returned")

\* C4 witness: the third attempt returns a record whose price is None
C4_Witness ==
    /\ spc = "returned"
    /\ IsDict(ret)
    /\ ret.dict.price = NoneStr
    /\ Len(outcomes) = retries + 1
    /\ retries = 2

\* C5: no exception leaves scrape_product; timeouts, other faults, blocked pages
\* and title-less pages are absorbed, and when all retries + 1 attempts ended
\* without a title the call returns None.
C5_NoExceptionEscapes ==
    /\ spc # "raised"
    /\ "raised" \notin DOMAIN ret
    /\ (spc = "returned" /\ "title" \notin Range(outcomes)) =>
           ret = None /\ Len(outcomes) = retries + 1

\* C5 witness: a timeout, another fault and a title-less page, then None
C5_Witness ==
    /\ spc = "returned"
    /\ ret = None
    /\ {"timeout", "error", "notitle"} \subseteq Range(outcomes)

C7_OneUpsertPerScrape ==
    \A t \in Threads :
        /\ pc[t] = "u_commit" => eff[t].rows = 1 /\ eff[t].hist = 1
        /\ "fault" \notin Range(blog[t])
        /\ ~(pc[t] = "done" /\ resp[t] = 500 /\ data[t] # None /\ ~eff[t].committed)

\* Rows of url u
ProductsOf(P, u) == {r \in P : r.url = u}
HistoryOf(H, u)  == {h \in H : h.url = u}

\* C8: after n >= 1 calls of _upsert_product for url u by a single caller, from
\* any starting store, there is exactly one product row of u, it holds the
\* latest call's values, and u has n more history rows than at the start; a
\* url with no call keeps its rows.
C8_IdempotentRowAdditiveHistory ==
    \A u \in Urls :
        IF calls[u] = 0
        THEN /\ ProductsOf(products, u) = ProductsOf(base.products, u)
             /\ HistoryOf(history, u) = HistoryOf(base.history, u)
        ELSE /\ Cardinality(ProductsOf(products, u)) = 1
             /\ \A r \in ProductsOf(products, u) :
                    r.title = lastData[u].title /\ r.price = lastData[u].price
             /\ Cardinality(HistoryOf(history, u)) =
                    Cardinality(HistoryOf(base.history, u)) + calls[u]

\* C8 witness: two calls for U1 whose row existed at the start, one for U2
C8_Witness ==
    /\ calls[U1] = 2
    /\ calls[U2] = 1
    /\ ProductsOf(base.products, U1) # {}
    /\ lastData[U1].price = NoneStr

\* C9: a batch loop goes on after a url whose scrape returned None or whose
\* _upsert_product raised: each handled url moves the loop to the next one,
\* a result that is saved is in the store when the loop moves on, and the
\* thread ends only after the last url of its list.
C9_BatchFailureIsolation ==
    /\ [](\A t \in Threads : op[t] \in BatchOps =>
            /\ Len(blog[t]) = idx[t]
            /\ idx[t] <= Len(batch[t])
            /\ (pc[t] = "done" => idx[t] = Len(batch[t])))
    /\ [][\A t \in Threads :
            (op[t] \in BatchOps /\ blog'[t] # blog[t] /\ op'[t] = op[t]) =>
                /\ pc'[t] = "batch"
                /\ idx'[t] = idx[t] + 1
                /\ (Last(blog'[t]) = "saved" =>
                      \E h \in history' \ history :
                          h.url = url[t] /\ h.scraped_at = now[t])
                /\ (Last(blog'[t]) # "saved" => UNCHANGED <<products, history>>)]_vars

\* C9 witness: a list of two urls whose first url failed in _upsert_product and
\* whose second url was saved
C9_Witness ==
    \E t \in Threads :
        /\ pc[t] = "done"
        /\ op[t] \in BatchOps
        /\ blog[t] = <<"fault", "saved">>

\* C10: the committed store has at most one product row per url and every
\* product row has a title; _upsert_product only runs for a scrape that
\* returned a record, so a scrape that returned None changes nothing.
C10_StoreInvariant ==
    /\ \A u \in InputUrls : Cardinality(ProductsOf(products, u)) <= 1
    /\ \A r \in products : r.title # Null /\ r.title # ""
    /\ \A t \in Threads : pc[t] \in UpsertPcs => IsDict(data[t])
    /\ \A t \in Threads : dbWriter = t /\ op[t] # "delete" => IsDict(data[t])

\* C10 witness: an INSERT is about to run for a url that another thread has
\* inserted since this thread looked
C10_Witness ==
    \E t \in Threads :
        /\ pc[t] = "u_write"
        /\ ~existing[t]
        /\ ProductsOf(products, url[t]) # {}

\* The operations that are add requests
AddOps == {"add", "bulk"}

\* Thread t commits its delete_product transaction in this step
DeleteCommits(t) == op[t] = "delete" /\ pc[t] = "d_commit" /\ pc'[t] = "done"

\* C11: a product row of a url that has none comes into the store only by the
\* commit of an add request (add_product or bulk_add) for that url; refresh_one,
\* refresh_all and the scheduled run never create a row.
C11_RowsCreatedOnlyByAdd ==
    [][\A u \in Urls :
          (ProductsOf(products, u) = {} /\ ProductsOf(products', u) # {}) =>
              \E t \in Threads :
                  pc[t] = "u_commit" /\ url[t] = u /\ op[t] \in AddOps]_vars

\* C12: delete_product for url u removes the product row and all snapshots of u
\* in the one step of its commit (nothing of it is visible before), leaves the
\* rows of every other url as they were, and no other step takes the product
\* row of a url out of the store.
C12_RemovalFrame ==
    [][/\ \A t \in Threads :
            DeleteCommits(t) =>
                /\ ProductsOf(products', url[t]) = {}
                /\ HistoryOf(history', url[t]) = {}
                /\ \A v \in Urls \ {url[t]} :
                     /\ ProductsOf(products', v) = ProductsOf(products, v)
                     /\ HistoryOf(history', v) = HistoryOf(history, v)
       /\ \A t \in Threads :
            (op'[t] = "delete" /\ pc'[t] \in {"d_history", "d_commit"})
                => UNCHANGED <<products, history>>
       /\ \A u \in Urls :
            (ProductsOf(products, u) # {} /\ ProductsOf(products', u) = {}) =>
                \E t \in Threads : DeleteCommits(t) /\ url[t] = u]_vars

\* C12 witness: a delete of U1 is about to commit; U1 has a product row and a
\* snapshot, and so has U2
C12_Witness ==
    \E t \in Threads :
        /\ op[t] = "delete"
        /\ pc[t] = "d_commit"
        /\ url[t] = U1
        /\ ProductsOf(products, U1) # {} /\ HistoryOf(history, U1) # {}
        /\ ProductsOf(wProducts, U1) = {} /\ HistoryOf(wHistory, U1) = {}
        /\ ProductsOf(products, U2) # {} /\ HistoryOf(history, U2) # {}

\* C13: a history row leaves the committed store (is removed or changed) only
\* in the commit of a delete_product for its url; every other step keeps all
\* the snapshots there are.
C13_HistoryAppendOnly ==
    [][\A h \in history \ history' :
          \E t \in Threads : DeleteCommits(t) /\ url[t] = h.url]_vars

\* C13 witness: U1 has three snapshots, two of them appended to the first
C13_Witness ==
    /\ Cardinality(HistoryOf(history, U1)) = 3
    /\ OldHist(U1) \in history

\* Thread t is inside "with scrape_lock:"
InGuard(t) == pc[t] = "scraping" /\ op[t] \in LockedOps

\* C14: add_product and refresh_one hold scrape_lock exactly while they are in
\* scrape_product, the step in which scrape_product returns (a record or None)
\* frees the lock, a held lock is freed in the end, and a request that is at
\* the lock, blocked or not, enters its scrape in the end.
C14_GuardReleaseAndProgress ==
    /\ [](\A t \in Threads : scrape_lock = t <=> InGuard(t))
    /\ [][\A t \in Threads :
            (InGuard(t) /\ pc'[t] # "scraping") => scrape_lock' = Free]_vars
    /\ \A t \in Threads : (scrape_lock = t) ~> (scrape_lock = Free)
    /\ \A t \in Threads : (pc[t] \in {"lock", "wait"}) ~> (pc[t] = "scraping")

\* C14 witness: a scrape has returned None (status 502) and the lock is free
\* while the other request is still blocked on it
C14_Witness ==
    \E t \in Threads : \E o \in Threads :
        /\ pc[t] = "wait"
        /\ waiting = <<t>>
        /\ scrape_lock = Free
        /\ op[o] \in LockedOps
        /\ pc[o] = "done"
        /\ resp[o] = 502

\* C15: scrape_lock is handed over in arrival order: while requests are blocked
\* on the lock, the thread that takes it is the one that has been blocked the
\* longest.
C15_GuardIsFifo ==
    [][\A t \in Threads :
          (scrape_lock # t /\ scrape_lock' = t /\ waiting # <<>>)
              => Head(waiting) = t]_vars

\* C16: the stock of the record parse_page returns is "Out of Stock" for the
\* availability text "Currently unavailable", "In stock" for "In Stock.",
\* "Unknown" for a page without the availability element, and "Out of Stock"
\* for every availability text that contains "unavailable" or "out of stock"
\* in any letter case.
C16_StockClassification ==
    spc = "parsed" =>
        /\ content.avail = El(TxtCurrentlyUnavailable)
               => ret.dict.stock = StockOutOfStock
        /\ content.avail = El(TxtInStockDot) => ret.dict.stock = StockInStock
        /\ content.avail = NoEl => ret.dict.stock = StockUnknown
        /\ Found(content.avail) =>
               LET t == lower(TextOf(content.avail))
               IN  (Contains(StrUnavailable, t) \/ Contains(StrOutOfStock, t))
                       => ret.dict.stock = StockOutOfStock

\* C17: the reviews of the record parse_page returns is the number made of the
\* digits of the review-count element's text, 0 when the element has no digit,
\* and None when the page has no review-count element.
C17_ReviewsField ==
    spc = "parsed" =>
        LET el == content.reviews
        IN  /\ ~Found(el) => ret.dict.reviews = NoneStr
            /\ (Found(el) /\ DigitsOnly(TextOf(el)) = <<>>)
                   => ret.dict.reviews = StrOfInt(0)
            /\ (Found(el) /\ DigitsOnly(TextOf(el)) # <<>>)
                   => ret.dict.reviews = StrOfInt(ToInt(DigitsOnly(TextOf(el))))

\* The wait the schedule gives after a failed attempt i that ended as how
WaitAfter(i, how) == IF how = "blocked" THEN 5 ELSE 3 + 2 * i

\* C18: scrape_product sleeps exactly once after each failed attempt i that is
\* not the last: 5 seconds when the attempt met a blocked page, 3 + 2*i seconds
\* when it ended with a timeout, another fault or a title-less page; after the
\* last attempt it returns without a sleep.
C18_BackoffSchedule ==
    /\ Len(sleeps) <= retries
    /\ Len(sleeps) <= Len(outcomes)
    /\ \A i \in 1..Len(sleeps) :
          /\ sleeps[i].attempt = i - 1
          /\ sleeps[i].secs = WaitAfter(i - 1, outcomes[i])
    /\ spc = "launch" => Len(sleeps) = attempt /\ Len(outcomes) = attempt
    /\ spc = "returned" => Len(sleeps) = Len(outcomes) - 1

\* C18 witness: a timeout (3 s), a blocked page (5 s), a title-less page and
\* the return of None with no further sleep
C18_Witness ==
    /\ spc = "returned"
    /\ ret = None
    /\ outcomes = <<"timeout", "blocked", "notitle">>
    /\ sleeps = <<[attempt |-> 0, secs |-> 3], [attempt |-> 1, secs |-> 5]>>

\* C19: the home page is visited only in attempt 0 and as the first navigation
\* of the call; every attempt visits first the home page (attempt 0 only) and
\* then at most once the target url, and an attempt with index >= 1 goes to the
\* target url directly, also after a fault during the warm-up.
C19_WarmUpOrdering ==
    /\ \A i \in 1..Len(navs) :
          /\ navs[i].target = "home" => (i = 1 /\ navs[i].attempt = 0)
          /\ (navs[i].target = "url" /\ navs[i].attempt = 0) =>
                 (i = 2 /\ navs[1].target = "home")
          /\ navs[i].attempt >= 1 => navs[i].target = "url"
          /\ \A j \in 1..Len(navs) :
                 (i < j => navs[i].attempt <= navs[j].attempt)
                 /\ ((i # j /\ navs[i].attempt = navs[j].attempt)
                        => navs[i].target # navs[j].target)
    /\ (spc \in {"goto", "inspect"} /\ attempt = 0) =>
          (navs # <<>> /\ navs[1].target = "home")
    /\ (spc = "inspect") => Last(navs) = [attempt |-> attempt, target |-> "url"]

\* C19 witness: the warm-up of attempt 0 timed out and attempt 1 went to the
\* target url with no visit of the home page
C19_Witness ==
    /\ outcomes # <<>>
    /\ outcomes[1] = "timeout"
    /\ navs = <<[attempt |-> 0, target |-> "home"], [attempt |-> 1, target |-> "url"]>>
    /\ spc = "inspect"

\* C20: a browser session is open only between the launch of an attempt and
\* the end of that attempt: none is open when an attempt starts, when the call
\* waits between attempts or when it has returned; a session is launched only
\* while none is open, at most one per attempt, and the pages are visited in
\* the session of their own attempt.
C20_BrowserSessionLifecycle ==
    /\ [](browser <=> spc \in {"warmup", "goto", "inspect"})
    /\ [](sessions <= attempt + 1)
    /\ [][/\ sessions' # sessions =>
              (~browser /\ sessions' = sessions + 1 /\ spc = "launch")
          /\ navs' # navs => browser
          /\ attempt' # attempt => (~browser' /\ attempt' = attempt + 1)
          /\ (spc # "returned" /\ spc' = "returned") => ~browser']_vars

\* C20 witness: three attempts that ended with a timeout, a blocked page and a
\* title-less page, three sessions launched and none open at the return
C20_Witness ==
    /\ spc = "returned"
    /\ Range(outcomes) = {"timeout", "blocked", "notitle"}
    /\ sessions = 3
    /\ ~browser

\* Thread t commits its _upsert_product transaction in this step
UpsertCommits(t) == pc[t] = "u_commit" /\ pc'[t] \notin UpsertPcs

\* C22: _upsert_product never runs its INSERT for a url that has a product row,
\* whatever runs beside it, and add_product for a url that has a row answers
\* 409 without a scrape and without a change of the store.
C22_NoUniquenessFault ==
    [][/\ \A t \in Threads :
            (pc[t] = "u_write" /\ pc'[t] # "u_write" /\ ~existing[t])
                => ProductsOf(products, url[t]) = {}
       /\ \A t \in Threads :
            (pc[t] = "idle" /\ op'[t] = "add" /\ ProductsOf(products, url'[t]) # {})
                => /\ pc'[t] = "done"
                   /\ resp'[t] = 409
                   /\ UNCHANGED <<products, history>>]_vars

\* C23: every history row of the committed store has the url of a product row
\* of the committed store.
C23_NoOrphanHistory ==
    \A h \in history : ProductsOf(products, h.url) # {}

\* C24: the commit of an _upsert_product call that found the row of its url
\* leaves that row with the url, asin and added_at it had, with last_scraped
\* equal to the call's now, and adds a snapshot whose scraped_at is that now;
\* the commit of a call that inserted the row leaves added_at = last_scraped
\* = now and adds the snapshot of that now.
C24_UpdateBranchFrame ==
    [][\A t \in Threads :
          (UpsertCommits(t) /\ eff[t].rows = 1) =>
              /\ \E h \in history' \ history :
                    h.url = url[t] /\ h.scraped_at = now[t]
              /\ \A r \in ProductsOf(products', url[t]) :
                    /\ r.last_scraped = now[t]
                    /\ IF existing[t]
                       THEN \E q \in ProductsOf(products, url[t]) :
                                /\ r.url = q.url
                                /\ r.asin = q.asin
                                /\ r.added_at = q.added_at
                       ELSE r.added_at = r.last_scraped
              /\ ProductsOf(products', url[t]) # {}]_vars

\* C24 witness: the row of U1, added at 0, has been updated twice and holds
\* the timestamp of its latest snapshot
C24_Witness ==
    \E r \in ProductsOf(products, U1) :
        /\ r.added_at = 0
        /\ r.last_scraped > 0
        /\ Cardinality(HistoryOf(history, U1)) = 3
        /\ \E h \in history : h.url = U1 /\ h.scraped_at = r.last_scraped

\* Thread a is before thread b in queue q
Before(q, a, b) == \E i, j \in 1..Len(q) : i < j /\ q[i] = a /\ q[j] = b

\* C21: the records of completed scrapes are persisted in the order in which
\* the scrapes completed: when an _upsert_product call commits, no scrape of
\* the same url that returned its record earlier is still to be persisted, so
\* the row and the newest snapshot of a url are those of its latest completed
\* scrape.
C21_PersistInCompletionOrder ==
    [][\A t \in Threads :
          UpsertCommits(t) =>
              ~\E o \in Threads :
                  o # t /\ url[o] = url[t] /\ Before(completed, o, t)]_vars

====
